---- MODULE Spec2Model ----
(***************************************************************************)
(* Silence segmentation of an audio buffer (silence.py): the threshold     *)
(* ladder, the boundary normalizer, the adaptive level search, the         *)
(* recursive fragmenter with its splice bookkeeping, the almost-silence    *)
(* merger and the two-layer fragment cache.                                *)
(*                                                                         *)
(* An audio segment is a sequence of cells of Cell milliseconds, each      *)
(* holding the loudness (dBFS) of that stretch; all times are in ms.       *)
(* A chunk is a record [silence_start, start, end, level, label], the      *)
(* names the loops of the source give to the five list positions.          *)
(***************************************************************************)
EXTENDS Integers, Sequences, FiniteSets, TLC

VARIABLES
    given,                \* the audio buffer the caller holds
    audio,                \* get_fragments: argument of the call in progress / last call
    min_audible_size,     \* get_fragments: argument
    target_audible_size,  \* get_fragments: argument
    pc,                   \* position in get_fragments: "idle" | "scan"
    chunks,               \* get_fragments: the local list being refined
    pos,                  \* get_fragments: index of the inner for loop (0-based)
    disk,                 \* CACHE_DIR: file name -> YAML document
    memo,                 \* lru_cache of get_fragments: argument triple -> returned list
    result,               \* value returned by the last finished call
    source,               \* how the last finished call was answered
    oracleUsed,           \* did the call in progress / last call invoke detect_silence
    hadEntry,             \* did the last memo-missing call find its cache file on disk
    firstWritten,         \* file name -> document written when the file was created
    lastSplice,           \* the last splice: replaced chunk and inserted sub-chunks
    lastKey,              \* arguments of the last call that returned
    stored,               \* file names written by a call of save_fragments from outside
    fn,                   \* function applied on its own: "none" or its name
    fnArgs,               \* the arguments it is applied to
    fnDone,               \* has it returned
    fnOut                 \* what it returned

vars == <<given, audio, min_audible_size, target_audible_size, pc, chunks,
          pos, disk, memo, result, source, oracleUsed, hadEntry, firstWritten,
          lastSplice, lastKey, stored, fn, fnArgs, fnDone, fnOut>>

callVars == <<audio, min_audible_size, target_audible_size, pc, chunks, pos, disk,
              memo, result, source, oracleUsed, hadEntry, firstWritten, lastSplice,
              lastKey, stored>>
fnVars == <<fn, fnArgs, fnDone, fnOut>>

----------------------------------------------------------------------------
(* Bounds of the model *)

\* length of a cell of audio in ms
Cell == 250
\* longest buffer, in cells
MaxCells == 4

\* loudness a cell can have: below every threshold, between thresholds, loud
Loudness == {-50, -38, 0}
\* values of min_audible_size and target_audible_size the caller passes
MinSizes == {150, 300}
TargetSizes == {400, 2000}

\* four longer recordings: the first splits twice over, the second starts and
\* ends with a short burst, the third is a second of silence and then a burst,
\* the fourth is a stretch of speech, a pause, and speech with a faint dip that
\* only the last level hears
Recordings ==
    {<<0, -50, 0, -38, 0, -38, -50, -50, 0>>,
     <<0, -50, 0, 0, -50, 0, 0, -50, 0>>,
     <<-50, -50, -50, -50, 0>>,
     <<0, 0, -50, -50, 0, 0, -34, 0, 0>>}

Buffers == UNION {[1..n -> Loudness] : n \in 0..MaxCells} \cup Recordings

----------------------------------------------------------------------------
(* Program constants *)

\* CPython keeps one object per int in -5..256; `is` on such ints is equality
SmallIntMin == -5
SmallIntMax == 256
\* get_audio_id hashes audio[:1000]
PrefixLen == 1000

NO_LABEL == "?"

\* the list comprehension of lines 11-13, indexed from 0 like the Python list
SILENCE_LEVELS ==
    [i \in 0..(9 * 4 - 1) |->
        [silence_thresh |-> -42 + (i \div 4),
         min_silence_len |-> 500 - 100 * (i % 4)]]

N == Cardinality(DOMAIN SILENCE_LEVELS)

----------------------------------------------------------------------------
(* Audio segments and the silence oracle *)

\* len(audio_segment), in ms
LenMs(seg) == Len(seg) * Cell

\* audio[start:end] for start, end on cell boundaries
Slice(seg, start, end) == SubSeq(seg, (start \div Cell) + 1, end \div Cell)

RECURSIVE SortRanges(_)
SortRanges(S) ==
    IF S = {} THEN <<>>
    ELSE LET m == CHOOSE r \in S : \A q \in S : r[1] <= q[1]
         IN  <<m>> \o SortRanges(S \ {m})

\* pydub.silence.detect_silence(seg, seek_step=10, **SILENCE_LEVELS[level]):
\* the maximal stretches, at least min_silence_len long, whose loudness is at
\* most silence_thresh, as an ordered list of (start, end) in ms
detect_silence(seg, level) ==
    LET thresh == SILENCE_LEVELS[level].silence_thresh
        minlen == SILENCE_LEVELS[level].min_silence_len
        n      == Len(seg)
        quiet(i) == seg[i] <= thresh
        runs == {r \in (1..n) \X (1..n) :
                    /\ r[1] <= r[2]
                    /\ \A i \in r[1]..r[2] : quiet(i)
                    /\ (r[1] = 1 \/ ~quiet(r[1] - 1))
                    /\ (r[2] = n \/ ~quiet(r[2] + 1))
                    /\ (r[2] - r[1] + 1) * Cell >= minlen}
    IN  IF LenMs(seg) < minlen THEN <<>>
        ELSE SortRanges({<<(r[1] - 1) * Cell, r[2] * Cell>> : r \in runs})

\* `a is b` for two ints computed separately: CPython shares the objects of
\* SmallIntMin..SmallIntMax and makes a new object for any other result, so
\* `is` holds of equal small ints and fails on equal ints outside that range
IsSame(a, b) ==
    a = b /\ SmallIntMin <= a /\ a <= SmallIntMax

----------------------------------------------------------------------------
(* detect_silence_and_audible *)

\* lines 24-35, on the list the oracle returned
Normalize(silent_ranges, len_seg, level) ==
    LET r1 == IF silent_ranges = <<>> \/ ~IsSame(silent_ranges[1][1], 0)
              THEN <<<<0, 0>>>> \o silent_ranges
              ELSE silent_ranges
        r2 == IF ~IsSame(r1[Len(r1)][2], len_seg)
              THEN Append(r1, <<len_seg, len_seg>>)
              ELSE r1
    IN  [i \in 1..(Len(r2) - 1) |->
            [silence_start |-> r2[i][1], start |-> r2[i][2],
             end |-> r2[i + 1][1], level |-> level]]

\* what SILENCE_LEVELS[level] raises for a level past the end of the list
IndexError == <<[raised |-> "IndexError"]>>

detect_silence_and_audible(audio_segment, level) ==
    IF level >= N THEN IndexError
    ELSE Normalize(detect_silence(audio_segment, level), LenMs(audio_segment), level)

----------------------------------------------------------------------------
(* seek_split *)

\* the value of the for/else when range(level, N) is empty: `chunks` is unbound
Unbound == <<[raised |-> "UnboundLocalError"]>>

\* seek_split with `len(chunks) > 0` for its test: the first level tried is returned
seek_split_any(seg, level) ==
    IF level >= N THEN Unbound ELSE detect_silence_and_audible(seg, level)

RECURSIVE seek_split(_, _)
seek_split(seg, level) ==
    IF level >= N THEN Unbound
    ELSE LET found == detect_silence_and_audible(seg, level)
         IN  IF Len(found) > 1 \/ level = N - 1 THEN found
             ELSE seek_split(seg, level + 1)

----------------------------------------------------------------------------
(* Fragment cache *)

\* sha1 of the samples of audio[:1000]: the digest stands for the prefix content
get_audio_id(seg) ==
    SubSeq(seg, 1, IF LenMs(seg) <= PrefixLen THEN Len(seg)
                   ELSE (PrefixLen + Cell - 1) \div Cell)

get_audio_fragments_filename(seg) == <<".cache", get_audio_id(seg), "fragments.yaml">>

\* yaml.dump of a list of 5-element lists: a YAML sequence of flow sequences
yaml_dump(cs) ==
    [i \in 1..Len(cs) |->
        <<cs[i].silence_start, cs[i].start, cs[i].end, cs[i].level, cs[i].label>>]

\* yaml.load of such a document
yaml_load(doc) ==
    [i \in 1..Len(doc) |->
        [silence_start |-> doc[i][1], start |-> doc[i][2], end |-> doc[i][3],
         level |-> doc[i][4], label |-> doc[i][5]]]

\* the directory after save_fragments(audio, chunks)
save_fragments(d, seg, cs) ==
    LET filename == get_audio_fragments_filename(seg)
    IN  [f \in DOMAIN d \cup {filename} |->
            IF f = filename THEN yaml_dump(cs) ELSE d[f]]

\* a Python value that is None or v
NoneOf(v) == [none |-> TRUE, value |-> v]
Some(v) == [none |-> FALSE, value |-> v]

\* load_fragments: None when the file is missing
load_fragments(d, seg) ==
    LET filename == get_audio_fragments_filename(seg)
    IN  IF filename \in DOMAIN d
        THEN Some(yaml_load(d[filename]))
        ELSE NoneOf(<<>>)

\* `if loaded:` - None and the empty list are both false
Truthy(loaded) == ~loaded.none /\ loaded.value # <<>>

----------------------------------------------------------------------------
(* _gen_join_almost_silent *)

\* `x or y` for x an int or None: None and 0 are both false
Or(x, y) == IF x.none \/ x.value = 0 THEN y ELSE x.value

\* the loop of lines 78-86 from the i-th chunk on, as the list of what it yields
RECURSIVE JoinFrom(_, _, _, _)
JoinFrom(cs, i, almost_silence_start, min_size) ==
    IF i > Len(cs) THEN <<>>
    ELSE LET c == cs[i]
         IN  IF c.end - c.start < min_size
             THEN JoinFrom(cs, i + 1,
                           Some(Or(almost_silence_start, c.silence_start)), min_size)
             ELSE <<[c EXCEPT !.silence_start =
                                  Or(almost_silence_start, c.silence_start)]>>
                  \o JoinFrom(cs, i + 1, NoneOf(0), min_size)

\* the merger with a flush after the loop: a short last chunk is emitted too
gen_join_flush_last(cs, min_size) ==
    JoinFrom(cs, 1, NoneOf(0), min_size)
    \o (IF cs # <<>> /\ cs[Len(cs)].end - cs[Len(cs)].start < min_size
        THEN <<cs[Len(cs)]>> ELSE <<>>)

gen_join_almost_silent(cs, min_size) == JoinFrom(cs, 1, NoneOf(0), min_size)

----------------------------------------------------------------------------
(* get_fragments *)

\* line 98
InitialChunks(seg) ==
    LET found == detect_silence_and_audible(seg, 0)
    IN  [i \in 1..Len(found) |->
            [silence_start |-> found[i].silence_start, start |-> found[i].start,
             end |-> found[i].end, level |-> found[i].level, label |-> NO_LABEL]]

\* the condition of line 102 alone: headroom in the ladder is not asked for
QualifiesAnyLevel(c, target) == c.end - c.start > target

\* the condition of lines 102-103
Qualifies(c, target) == c.end - c.start > target /\ c.level + 1 < N

\* line 104, for the chunk at 0-based position p
Subsplit(seg, cs, p) ==
    seek_split(Slice(seg, cs[p + 1].start, cs[p + 1].end), cs[p + 1].level + 1)

\* the insertion with the level of the replaced chunk kept on the sub-chunks
InsertedKeepLevel(c, subsplit) ==
    [i \in 1..Len(subsplit) |->
        [silence_start |-> IF i = 1 THEN c.silence_start
                           ELSE subsplit[i].silence_start + c.start,
         start |-> subsplit[i].start + c.start,
         end |-> subsplit[i].end + c.start,
         level |-> c.level, label |-> NO_LABEL]]

\* the insertion without the shift by `start`: times stay relative to the slice
InsertedUnshifted(c, subsplit) ==
    [i \in 1..Len(subsplit) |->
        [silence_start |-> IF i = 1 THEN c.silence_start
                           ELSE subsplit[i].silence_start,
         start |-> subsplit[i].start,
         end |-> subsplit[i].end,
         level |-> subsplit[i].level, label |-> NO_LABEL]]

\* the insertion without line 111: the first sub-chunk keeps its own
\* silence_start, shifted like the others
InsertedOwnSilence(c, subsplit) ==
    [i \in 1..Len(subsplit) |->
        [silence_start |-> subsplit[i].silence_start + c.start,
         start |-> subsplit[i].start + c.start,
         end |-> subsplit[i].end + c.start,
         level |-> subsplit[i].level, label |-> NO_LABEL]]

\* lines 108-111: the sub-chunks as they are inserted
Inserted(c, subsplit) ==
    [i \in 1..Len(subsplit) |->
        [silence_start |-> IF i = 1 THEN c.silence_start
                           ELSE subsplit[i].silence_start + c.start,
         start |-> subsplit[i].start + c.start,
         end |-> subsplit[i].end + c.start,
         level |-> subsplit[i].level, label |-> NO_LABEL]]

\* a splice that leaves the list as it was
SpliceNothing(cs, p, sub) == cs

\* lines 113-115, for 0-based position p: the list with cs[p] replaced by sub
Splice(cs, p, sub) ==
    [i \in 1..(Len(cs) - 1 + Len(sub)) |->
        IF i <= p THEN cs[i]
        ELSE IF i <= p + Len(sub) THEN sub[i - p]
        ELSE IF i = p + Len(sub) + 1
             THEN [cs[p + 2] EXCEPT !.silence_start = sub[Len(sub)].end]
             ELSE cs[i - Len(sub) + 1]]

\* the lru_cache after a call with these arguments returned r (its maxsize is
\* far above the number of argument triples a run of the model uses)
Remember(m, key, r) ==
    [k \in DOMAIN m \cup {key} |-> IF k = key THEN r ELSE m[k]]

NoFiles == [f \in {} |-> <<>>]
NoSplice == [pos |-> 0, before |-> <<>>, sub |-> <<>>]

Init ==
    /\ given \in Buffers
    /\ audio = <<>>
    /\ min_audible_size = 150
    /\ target_audible_size = 2000
    /\ pc = "idle"
    /\ chunks = <<>>
    /\ pos = 0
    /\ disk = NoFiles
    /\ memo = NoFiles
    /\ result = <<>>
    /\ source = "none"
    /\ oracleUsed = FALSE
    /\ hadEntry = FALSE
    /\ firstWritten = NoFiles
    /\ lastSplice = NoSplice
    /\ lastKey = <<>>
    /\ stored = {}
    /\ fn = "none" /\ fnArgs = <<>> /\ fnDone = FALSE /\ fnOut = <<>>

\* a call answered by the lru_cache: the body of get_fragments does not run
CallMemoHit(a, m, t) ==
    /\ pc = "idle"
    /\ <<a, m, t>> \in DOMAIN memo
    /\ audio' = a /\ min_audible_size' = m /\ target_audible_size' = t
    /\ result' = memo[<<a, m, t>>]
    /\ source' = "memo"
    /\ lastKey' = <<a, m, t>>
    /\ oracleUsed' = FALSE
    /\ UNCHANGED <<given, pc, chunks, pos, disk, memo, hadEntry,
                   firstWritten, lastSplice, stored, fnVars>>

\* lines 94-96: the file is there and what it holds is true
CallDiskHit(a, m, t) ==
    /\ pc = "idle"
    /\ <<a, m, t>> \notin DOMAIN memo
    /\ Truthy(load_fragments(disk, a))
    /\ audio' = a /\ min_audible_size' = m /\ target_audible_size' = t
    /\ result' = load_fragments(disk, a).value
    /\ memo' = Remember(memo, <<a, m, t>>, result')
    /\ source' = "disk"
    /\ lastKey' = <<a, m, t>>
    /\ oracleUsed' = FALSE
    /\ hadEntry' = TRUE
    /\ UNCHANGED <<given, pc, chunks, pos, disk, firstWritten, lastSplice,
                   stored, fnVars>>

\* lines 94-98: nothing loaded, or something false; the computation starts
CallCompute(a, m, t) ==
    /\ pc = "idle"
    /\ <<a, m, t>> \notin DOMAIN memo
    /\ ~Truthy(load_fragments(disk, a))
    /\ audio' = a /\ min_audible_size' = m /\ target_audible_size' = t
    /\ hadEntry' = ~load_fragments(disk, a).none
    /\ chunks' = InitialChunks(a)
    /\ pos' = 0
    /\ pc' = "scan"
    /\ oracleUsed' = TRUE
    /\ lastSplice' = NoSplice
    /\ UNCHANGED <<given, disk, memo, result, source, firstWritten, lastKey,
                   stored, fnVars>>

\* a scan that gives up at the first chunk that qualifies and does not split
ScanNextGiveUp ==
    /\ pc = "scan"
    /\ pos < Len(chunks)
    /\ \/ ~Qualifies(chunks[pos + 1], target_audible_size) /\ pos' = pos + 1
       \/ /\ Qualifies(chunks[pos + 1], target_audible_size)
          /\ Len(Subsplit(audio, chunks, pos)) <= 1
          /\ pos' = Len(chunks)
    /\ UNCHANGED <<given, audio, min_audible_size, target_audible_size, pc,
                   chunks, disk, memo, result, source, oracleUsed, hadEntry,
                   firstWritten, lastSplice, lastKey, stored, fnVars>>

\* lines 100-105: the chunk at pos does not qualify, or does not split
ScanNext ==
    /\ pc = "scan"
    /\ pos < Len(chunks)
    /\ \/ ~Qualifies(chunks[pos + 1], target_audible_size)
       \/ Len(Subsplit(audio, chunks, pos)) <= 1
    /\ pos' = pos + 1
    /\ UNCHANGED <<given, audio, min_audible_size, target_audible_size, pc,
                   chunks, disk, memo, result, source, oracleUsed, hadEntry,
                   firstWritten, lastSplice, lastKey, stored, fnVars>>

\* lines 100-116: the chunk at pos is split and the scan restarts
ScanSplice ==
    /\ pc = "scan"
    /\ pos < Len(chunks)
    /\ Qualifies(chunks[pos + 1], target_audible_size)
    /\ Len(Subsplit(audio, chunks, pos)) > 1
    /\ LET sub == Inserted(chunks[pos + 1], Subsplit(audio, chunks, pos))
       IN  /\ chunks' = Splice(chunks, pos, sub)
           /\ lastSplice' = [pos |-> pos, before |-> chunks, sub |-> sub]
    /\ pos' = 0
    /\ UNCHANGED <<given, audio, min_audible_size, target_audible_size, pc,
                   disk, memo, result, source, oracleUsed, hadEntry, firstWritten,
                   lastKey, stored, fnVars>>

\* lines 117-123: the scan found nothing to split; merge, save, return
Finish ==
    /\ pc = "scan"
    /\ pos = Len(chunks)
    /\ LET merged == gen_join_almost_silent(chunks, min_audible_size)
           filename == get_audio_fragments_filename(audio)
       IN  /\ chunks' = merged
           /\ disk' = save_fragments(disk, audio, merged)
           /\ result' = merged
           /\ memo' = Remember(memo, <<audio, min_audible_size, target_audible_size>>,
                               merged)
           /\ firstWritten' =
                  IF filename \in DOMAIN firstWritten THEN firstWritten
                  ELSE Remember(firstWritten, filename, yaml_dump(merged))
    /\ source' = "computed"
    /\ lastKey' = <<audio, min_audible_size, target_audible_size>>
    /\ pc' = "idle"
    /\ UNCHANGED <<given, audio, min_audible_size, target_audible_size, pos,
                   oracleUsed, hadEntry, lastSplice, stored, fnVars>>

\* lists a consumer of the Fragment List stores: none left, or its chunks labelled
StoredLists ==
    {<<>>,
     <<[silence_start |-> 0, start |-> 0, end |-> 250, level |-> 3, label |-> "speaker"],
       [silence_start |-> 250, start |-> 500, end |-> 750, level |-> 3,
        label |-> "translator"]>>}

\* the buffers whose lists a consumer stores: a short one, and one that a
\* longer recording opens like
StoredFor == {<<0, -50, 0>>, <<-50, -50, -50, -50>>}

\* lines 59-64 called from outside get_fragments: the file of the buffer is
\* written, or written over, with the list given; the lru_cache is not touched
CallSaveFragments(a, cs) ==
    /\ pc = "idle"
    /\ LET filename == get_audio_fragments_filename(a)
       IN  /\ disk' = save_fragments(disk, a, cs)
           /\ stored' = stored \cup {filename}
           /\ firstWritten' =
                  IF filename \in DOMAIN firstWritten THEN firstWritten
                  ELSE Remember(firstWritten, filename, yaml_dump(cs))
    /\ UNCHANGED <<given, audio, min_audible_size, target_audible_size, pc,
                   chunks, pos, memo, result, source, oracleUsed, hadEntry,
                   lastSplice, lastKey, fnVars>>

\* the process ends and a later one starts on the same cache directory
NewProcess ==
    /\ pc = "idle"
    /\ memo # NoFiles
    /\ memo' = NoFiles
    /\ UNCHANGED <<given, audio, min_audible_size, target_audible_size, pc,
                   chunks, pos, disk, result, source, oracleUsed, hadEntry,
                   firstWritten, lastSplice, lastKey, stored, fnVars>>

\* the caller turns to another recording, one that opens like the recording
\* at hand: the calls that follow are on it, with the lru_cache and the cache
\* directory as they are
OpenRecording(r) ==
    /\ pc = "idle"
    /\ r # given
    /\ get_audio_id(r) = get_audio_id(given)
    /\ given' = r
    /\ UNCHANGED <<audio, min_audible_size, target_audible_size, pc, chunks,
                   pos, disk, memo, result, source, oracleUsed, hadEntry, firstWritten,
                   lastSplice, lastKey, stored, fnVars>>

Next ==
    \/ \E m \in MinSizes, t \in TargetSizes : CallMemoHit(given, m, t)
    \/ \E m \in MinSizes, t \in TargetSizes : CallDiskHit(given, m, t)
    \/ \E m \in MinSizes, t \in TargetSizes : CallCompute(given, m, t)
    \/ ScanNext
    \/ ScanSplice
    \/ Finish
    \/ NewProcess
    \/ \E r \in Recordings : OpenRecording(r)
    \/ \E a \in StoredFor, cs \in StoredLists : a = given /\ CallSaveFragments(a, cs)

Spec == Init /\ [][Next]_vars

\* a step of the loop of get_fragments, or the return after it
LoopStep == ScanNext \/ ScanSplice \/ Finish

\* get_fragments is synchronous and single-threaded: once called it runs on,
\* while nothing makes the caller call again. This is weak fairness of LoopStep,
\* which is enabled exactly when pc = "scan", written out as WF_vars(LoopStep)
\* is defined: again and again LoopStep is disabled or a LoopStep is taken.
LiveSpec ==
    Spec /\ ([]<>(pc # "scan") \/ []<><<LoopStep>>_vars)

----------------------------------------------------------------------------
(* The three pure functions applied on their own to inputs of any shape *)

\* most intervals in a list handed to the normalizer
MaxRanges == 2
\* most chunks in a list handed to the merger
MaxMerge == 4

\* buffer lengths and interval ends handed to the normalizer (ms)
NormLens == {0, 200, 300, 1000}
NormPoints == {0, 200, 300, 1000}
NormLevels == {0, N - 1}

\* ordered lists of disjoint non-empty intervals inside [0, len_seg]
RangeLists(len_seg) ==
    LET pts == {x \in NormPoints : x <= len_seg}
        ivs == {r \in pts \X pts : r[1] < r[2]}
    IN  {rs \in UNION {[1..k -> ivs] : k \in 0..MaxRanges} :
            \A i \in 1..(Len(rs) - 1) : rs[i][2] <= rs[i + 1][1]}

NormalizeInputs ==
    UNION {{[silent_ranges |-> rs, len_seg |-> l, level |-> lv] :
                rs \in RangeLists(l), lv \in NormLevels} : l \in NormLens}

\* chunks handed to the merger: leading silence of 10 ms, short or long audible span
MergeChunks ==
    {[silence_start |-> ss, start |-> ss + 10, end |-> ss + 10 + span,
      level |-> tag[1], label |-> tag[2]] :
        ss \in {0, 60}, span \in {5, 200}, tag \in {<<0, NO_LABEL>>, <<3, "speaker">>}}

MergeInputs ==
    {[chunks |-> cs, min_audible_size |-> m] :
        cs \in UNION {[1..k -> MergeChunks] : k \in 0..MaxMerge}, m \in {150, 200, 201}}

\* starting levels: every level of the ladder, and the first one past it
SeekInputs == {[audio |-> a, level |-> lv] : a \in Buffers, lv \in 0..N}

InitFn ==
    /\ given = <<>>
    /\ audio = <<>>
    /\ min_audible_size = 150
    /\ target_audible_size = 2000
    /\ pc = "idle"
    /\ chunks = <<>>
    /\ pos = 0
    /\ disk = NoFiles
    /\ memo = NoFiles
    /\ result = <<>>
    /\ source = "none"
    /\ oracleUsed = FALSE
    /\ hadEntry = FALSE
    /\ firstWritten = NoFiles
    /\ lastSplice = NoSplice
    /\ lastKey = <<>>
    /\ stored = {}
    /\ fnDone = FALSE
    /\ fnOut = <<>>
    /\ \/ fn = "detect_silence_and_audible" /\ fnArgs \in NormalizeInputs
       \/ fn = "_gen_join_almost_silent" /\ fnArgs \in MergeInputs
       \/ fn = "seek_split" /\ fnArgs \in SeekInputs
       \/ fn = "detect_silence_and_audible(audio)" /\ fnArgs \in SeekInputs

ApplyNormalize ==
    /\ fn = "detect_silence_and_audible" /\ ~fnDone
    /\ fnOut' = Normalize(fnArgs.silent_ranges, fnArgs.len_seg, fnArgs.level)
    /\ fnDone' = TRUE
    /\ UNCHANGED <<given, callVars, fn, fnArgs>>

ApplyMerge ==
    /\ fn = "_gen_join_almost_silent" /\ ~fnDone
    /\ fnOut' = gen_join_almost_silent(fnArgs.chunks, fnArgs.min_audible_size)
    /\ fnDone' = TRUE
    /\ UNCHANGED <<given, callVars, fn, fnArgs>>

ApplySeek ==
    /\ fn = "seek_split" /\ ~fnDone
    /\ fnOut' = seek_split(fnArgs.audio, fnArgs.level)
    /\ fnDone' = TRUE
    /\ UNCHANGED <<given, callVars, fn, fnArgs>>

\* detect_silence_and_audible on a buffer, with the oracle's answer for it
ApplyDetect ==
    /\ fn = "detect_silence_and_audible(audio)" /\ ~fnDone
    /\ fnOut' = detect_silence_and_audible(fnArgs.audio, fnArgs.level)
    /\ fnDone' = TRUE
    /\ UNCHANGED <<given, callVars, fn, fnArgs>>

NextFn == ApplyNormalize \/ ApplyMerge \/ ApplySeek \/ ApplyDetect

SpecFn == InitFn /\ [][NextFn]_vars

----------------------------------------------------------------------------
(* Claims about the pure functions, checked under SpecFn *)

Returned(name) == fn = name /\ fnDone

\* the normalization as the specification words it: by value, not by identity
ClaimedRanges(silent_ranges, len_seg) ==
    LET r1 == IF silent_ranges = <<>> \/ silent_ranges[1][1] # 0
              THEN <<<<0, 0>>>> \o silent_ranges
              ELSE silent_ranges
    IN  IF r1[Len(r1)][2] # len_seg THEN Append(r1, <<len_seg, len_seg>>) ELSE r1

ClaimedRecords(silent_ranges, len_seg, level) ==
    LET r == ClaimedRanges(silent_ranges, len_seg)
    IN  [i \in 1..(Len(r) - 1) |->
            [silence_start |-> r[i][1], start |-> r[i][2],
             end |-> r[i + 1][1], level |-> level]]

\* C8: detect_silence_and_audible prepends (0,0) exactly when no interval starts
\* at 0, appends (len,len) exactly when no interval ends at len, and returns one
\* record (start_i, end_i, start_{i+1}, level) per consecutive pair of intervals.
C8_NormalizerByValue ==
    Returned("detect_silence_and_audible") =>
        fnOut = ClaimedRecords(fnArgs.silent_ranges, fnArgs.len_seg, fnArgs.level)

IsShort(c, min_size) == c.end - c.start < min_size

\* positions of the chunks of cs that are not short, in order
RECURSIVE LongPositions(_, _, _)
LongPositions(cs, i, min_size) ==
    IF i > Len(cs) THEN <<>>
    ELSE (IF IsShort(cs[i], min_size) THEN <<>> ELSE <<i>>)
         \o LongPositions(cs, i + 1, min_size)

\* first position of the run of short chunks that ends right before position i
RunStart(cs, i, min_size) ==
    CHOOSE r \in 1..i :
        /\ \A q \in r..(i - 1) : IsShort(cs[q], min_size)
        /\ (r = 1 \/ ~IsShort(cs[r - 1], min_size))

\* C5: each chunk the merger emits has the silence_start of the first chunk of
\* the run of short chunks right before it, or its own when there is no such run.
C5_EarliestAbsorbedStart ==
    Returned("_gen_join_almost_silent") =>
        LET cs == fnArgs.chunks
            m  == fnArgs.min_audible_size
            at == LongPositions(cs, 1, m)
        IN  \A k \in 1..Len(fnOut) :
                k <= Len(at) =>
                    fnOut[k].silence_start = cs[RunStart(cs, at[k], m)].silence_start

\* a chunk without its leading silence
Audible(c) == [start |-> c.start, end |-> c.end, level |-> c.level, label |-> c.label]

\* C6: the merger emits exactly the chunks whose audible span is at least
\* min_audible_size, in input order, with audible_start, audible_end, level and
\* label unchanged; short chunks are never emitted.
C6_EmitsExactlyTheLongChunks ==
    Returned("_gen_join_almost_silent") =>
        LET cs == fnArgs.chunks
            at == LongPositions(cs, 1, fnArgs.min_audible_size)
        IN  /\ Len(fnOut) = Len(at)
            /\ \A k \in 1..Len(at) : Audible(fnOut[k]) = Audible(cs[at[k]])

\* a list of four chunks, short, long, short, short: the trailing run is dropped
C6_Witness ==
    /\ Returned("_gen_join_almost_silent")
    /\ Len(fnArgs.chunks) = 4
    /\ IsShort(fnArgs.chunks[1], fnArgs.min_audible_size)
    /\ ~IsShort(fnArgs.chunks[2], fnArgs.min_audible_size)
    /\ IsShort(fnArgs.chunks[3], fnArgs.min_audible_size)
    /\ IsShort(fnArgs.chunks[4], fnArgs.min_audible_size)
    /\ fnArgs.chunks[2].label # NO_LABEL
    /\ Len(fnOut) = 1

\* levels from s on at which the normalizer finds more than one chunk
SplitLevels(seg, s) ==
    {l \in s..(N - 1) : Len(detect_silence_and_audible(seg, l)) > 1}

LowestOf(S) == CHOOSE l \in S : \A k \in S : l <= k

\* C7: seek_split from a level s of the ladder returns the chunk list of the
\* lowest level >= s at which it has more than one chunk, else the list of
\* level N-1; every returned chunk carries that level.
C7_LowestSufficientLevel ==
    (Returned("seek_split") /\ fnArgs.level < N) =>
        LET seg == fnArgs.audio
            ls  == SplitLevels(seg, fnArgs.level)
            at  == IF ls = {} THEN N - 1 ELSE LowestOf(ls)
        IN  /\ fnOut = detect_silence_and_audible(seg, at)
            /\ \A i \in 1..Len(fnOut) : fnOut[i].level = at

\* a buffer that, among levels 0 to 5, splits at level 3 only, searched from level 0
C7_Witness ==
    /\ Returned("seek_split")
    /\ fnArgs.level = 0
    /\ {l \in SplitLevels(fnArgs.audio, 0) : l <= 5} = {3}
    /\ SplitLevels(fnArgs.audio, 4) # {}
    /\ Len(fnOut) > 1
    /\ fnOut[1].level = 3

----------------------------------------------------------------------------
(* Claims about get_fragments and its cache, checked under Spec *)

\* a call that computed its answer has just returned
Computed == pc = "idle" /\ source = "computed"

\* a step in which a call of get_fragments returns
ReturnStep ==
    \/ \E m \in MinSizes, t \in TargetSizes :
            CallMemoHit(given, m, t) \/ CallDiskHit(given, m, t)
    \/ Finish

\* each chunk starts where the one before it ends
Contiguous(cs) ==
    \A i \in 1..(Len(cs) - 1) : cs[i + 1].silence_start = cs[i].end

\* no two audible spans overlap
NoOverlap(cs) ==
    \A i \in 1..Len(cs) : \A j \in 1..Len(cs) :
        i < j => cs[i].end <= cs[j].start

\* cs covers [0, len_seg) without gap or overlap
Covers(cs, len_seg) ==
    IF cs = <<>> THEN len_seg = 0
    ELSE /\ cs[1].silence_start = 0
         /\ Contiguous(cs)
         /\ cs[Len(cs)].end = len_seg
         /\ NoOverlap(cs)

\* C1 as stated: the list a computing call returns covers [0, len(buffer)): it
\* starts at 0, each chunk starts where the previous one ends, and it ends at
\* len(buffer).
C1_CoversWholeBuffer == Computed => Covers(result, LenMs(audio))

\* C1 as amended: the list a computing call returns may be empty; its chunks are
\* contiguous among themselves and their audible spans do not overlap, the
\* first starts at or after 0 and the last ends at or before len(buffer).
C1_ContiguousInsideBuffer ==
    Computed =>
        /\ Contiguous(result)
        /\ NoOverlap(result)
        /\ \A i \in 1..Len(result) :
              /\ 0 <= result[i].silence_start
              /\ result[i].silence_start <= result[i].start
              /\ result[i].start <= result[i].end
              /\ result[i].end <= LenMs(audio)

\* a computed list of several chunks, made by a splice, that leaves the start
\* and the end of the buffer uncovered
C1_Witness ==
    /\ Computed
    /\ lastSplice # NoSplice
    /\ Len(result) >= 2
    /\ result[1].silence_start > 0
    /\ result[Len(result)].end < LenMs(audio)

\* no call of save_fragments from outside get_fragments wrote the file of seg
Unstored(seg) == get_audio_fragments_filename(seg) \notin stored

\* C2: a call with the arguments of the call before it returns the same list
\* and is answered by the lru_cache or the cache file, without the oracle
\* (for a file that get_fragments alone has written).
C2_RepeatServedFromCache ==
    [][(ReturnStep /\ lastKey = <<audio', min_audible_size', target_audible_size'>>
            /\ Unstored(audio'))
        => (result' = result /\ source' \in {"memo", "disk"} /\ ~oracleUsed')]_vars

\* the shortest min_silence_len of the ladder
MinGranularity ==
    LET ls == {SILENCE_LEVELS[l].min_silence_len : l \in DOMAIN SILENCE_LEVELS}
    IN  CHOOSE x \in ls : \A y \in ls : x <= y

Degenerate(seg) == LenMs(seg) = 0 \/ LenMs(seg) < MinGranularity

\* C3: for an empty buffer, or one shorter than any min_silence_len,
\* get_fragments returns exactly one chunk, from 0 to len(buffer).
C3_DegenerateGivesOneChunk ==
    (Computed /\ Degenerate(audio)) =>
        /\ Len(result) = 1
        /\ result[1].silence_start = 0
        /\ result[1].end = LenMs(audio)

\* C4: when the cache file of the buffer exists at a call the lru_cache does
\* not answer, the call returns the file's content as it is, whoever wrote it,
\* and computes and writes nothing: no computation starts for a buffer whose
\* file is there.
C4_ExistingEntryReturnedVerbatim ==
    [][\A m \in MinSizes, t \in TargetSizes :
          /\ CallCompute(given, m, t) =>
                get_audio_fragments_filename(given) \notin DOMAIN disk
          /\ CallDiskHit(given, m, t) =>
                /\ result' = yaml_load(disk[get_audio_fragments_filename(given)])
                /\ ~oracleUsed'
                /\ disk' = disk]_vars

\* C9: a cache file, once created, keeps the content first written to it:
\* no call of get_fragments changes it (a file that save_fragments was called
\* on from outside is left aside).
C9_EntryNeverRewritten ==
    \A f \in DOMAIN disk :
        f \notin stored => (f \in DOMAIN firstWritten /\ disk[f] = firstWritten[f])

\* chunks of cs whose leading silence or audible span holds the instant p
Covering(cs, p) == {i \in 1..Len(cs) : cs[i].silence_start <= p /\ p < cs[i].end}

\* the instants of the buffer at which a chunk can start or end
Instants == {k * Cell : k \in 0..Len(audio)}

\* the inserted sub-chunks carry one level, above the replaced chunk's, in the ladder
SpliceRaisesLevel(c, sub) ==
    \A i \in 1..Len(sub) :
        /\ sub[i].level = sub[1].level
        /\ sub[i].level > c.level
        /\ sub[i].level \in 0..(N - 1)
        /\ \A j \in 1..Len(sub) : i < j => sub[j].level >= sub[i].level

\* C10: the sub-chunks of a splice all carry one level, above the level
\* of the chunk they replace and inside the ladder; hence the level of the chunk
\* covering any instant of the buffer never decreases in a splice.
C10_LevelNeverDecreasesAnywhere ==
    [][ScanSplice =>
        /\ SpliceRaisesLevel(chunks[pos + 1], lastSplice'.sub)
        /\ \A p \in Instants :
              \A i \in Covering(chunks, p) : \A j \in Covering(chunks', p) :
                  chunks'[j].level >= chunks[i].level]_vars

\* a second-generation splice: a chunk that a splice inserted is split again,
\* with a chunk of a lower level after it
C10_Witness ==
    /\ pc = "scan"
    /\ lastSplice # NoSplice
    /\ chunks = Splice(lastSplice.before, lastSplice.pos, lastSplice.sub)
    /\ lastSplice.before[lastSplice.pos + 1].level > 0
    /\ Len(lastSplice.sub) >= 2
    /\ lastSplice.pos + 2 <= Len(lastSplice.before)
    /\ lastSplice.before[lastSplice.pos + 2].level
          < lastSplice.before[lastSplice.pos + 1].level

\* C11: two buffers with the same first 1000 ms of samples have one fingerprint
\* and one cache file name; a call on one of them, right after a call on the
\* other has returned (so that the file is there), returns the list that call
\* returned (for a file that get_fragments alone has written).
C11_SamePrefixSameList ==
    [][(ReturnStep /\ lastKey # <<>> /\ lastKey[1] # audio' /\ Unstored(audio')
            /\ get_audio_id(lastKey[1]) = get_audio_id(audio'))
        => /\ get_audio_fragments_filename(audio')
                 = get_audio_fragments_filename(lastKey[1])
           /\ get_audio_fragments_filename(audio') \in DOMAIN disk
           /\ result' = result]_vars

\* the inner for loop has run through the list: the outer loop is left
LoopExit == pc = "scan" /\ pos = Len(chunks)

\* the audible span of the i-th chunk of the list being refined
Span(i) == Slice(audio, chunks[i].start, chunks[i].end)

\* C12 as stated: at loop exit every chunk has an audible span of at most
\* target_audible_size or a level with no level above it in the ladder.
C12_NoChunkQualifiesAtExit ==
    LoopExit =>
        \A i \in 1..Len(chunks) :
            \/ chunks[i].end - chunks[i].start <= target_audible_size
            \/ chunks[i].level + 1 >= N

\* C12 as amended: at loop exit every chunk has an audible span of at most
\* target_audible_size, or a level with no level above it, or an audible span
\* that no level above the chunk's own splits in more than one chunk.
C12_NoChunkSplitsAtExit ==
    LoopExit =>
        \A i \in 1..Len(chunks) :
            \/ chunks[i].end - chunks[i].start <= target_audible_size
            \/ chunks[i].level + 1 >= N
            \/ SplitLevels(Span(i), chunks[i].level + 1) = {}

\* the loop is left after a splice with a chunk in the list that is too long,
\* has levels above its own, and splits at none of them
C12_Witness ==
    /\ LoopExit
    /\ lastSplice # NoSplice
    /\ \E i \in 1..Len(chunks) :
          /\ Qualifies(chunks[i], target_audible_size)
          /\ SplitLevels(Span(i), chunks[i].level + 1) = {}

\* C13: a call of get_fragments that starts to compute reaches the merge,
\* store and return step: the splice-and-rescan loop terminates.
C13_LoopTerminates == (pc = "scan") ~> Computed

\* a computing call has returned after a splice of a chunk that an earlier
\* splice had inserted
C13_Witness ==
    /\ Computed
    /\ lastSplice # NoSplice
    /\ lastSplice.before[lastSplice.pos + 1].level > 0
    /\ Len(result) >= 3

\* C14: a splice at position pos replaces that chunk alone by the sub-chunks
\* shifted by its audible_start; the first sub-chunk takes the replaced chunk's
\* silence_start, the following chunk (if any) takes the last sub-chunk's
\* audible_end for silence_start and keeps its other fields, every sub-chunk
\* has the placeholder label, and every other chunk is unchanged.
C14_SpliceFrame ==
    [][ScanSplice =>
        LET c        == chunks[pos + 1]
            subsplit == Subsplit(audio, chunks, pos)
            n        == Len(subsplit)
        IN  /\ Len(chunks') = Len(chunks) - 1 + n
            /\ \A i \in 1..pos : chunks'[i] = chunks[i]
            /\ \A k \in 1..n :
                  /\ chunks'[pos + k].start = subsplit[k].start + c.start
                  /\ chunks'[pos + k].end = subsplit[k].end + c.start
                  /\ chunks'[pos + k].level = subsplit[k].level
                  /\ chunks'[pos + k].label = NO_LABEL
                  /\ k > 1 => chunks'[pos + k].silence_start
                                  = subsplit[k].silence_start + c.start
            /\ chunks'[pos + 1].silence_start = c.silence_start
            /\ pos + 2 <= Len(chunks) =>
                  /\ chunks'[pos + n + 1].silence_start = chunks'[pos + n].end
                  /\ Audible(chunks'[pos + n + 1]) = Audible(chunks[pos + 2])
            /\ \A i \in (pos + 3)..Len(chunks) : chunks'[i + n - 1] = chunks[i]]_vars

\* a splice has just replaced a chunk that has a chunk before it and a chunk
\* after it
C14_Witness ==
    /\ pc = "scan" /\ pos = 0
    /\ lastSplice # NoSplice
    /\ chunks = Splice(lastSplice.before, lastSplice.pos, lastSplice.sub)
    /\ lastSplice.pos >= 1
    /\ lastSplice.pos + 2 <= Len(lastSplice.before)
    /\ Len(lastSplice.sub) >= 2

\* every chunk is a leading silence and then an audible span, the chunks are in
\* strictly increasing time order, and no chunk starts before the one before
\* it ends
WellFormed(cs) ==
    /\ \A i \in 1..Len(cs) :
          cs[i].silence_start <= cs[i].start /\ cs[i].start <= cs[i].end
    /\ \A i \in 1..(Len(cs) - 1) :
          /\ cs[i].silence_start < cs[i + 1].silence_start
          /\ cs[i].start < cs[i + 1].start
          /\ cs[i].end <= cs[i + 1].silence_start

\* C15: in every state of the refinement loop and in the merged list, every
\* chunk has silence_start <= audible_start <= audible_end, the chunks are in
\* strictly increasing time order and audible spans never overlap.
C15_ChunksOrdered ==
    /\ pc = "scan" => WellFormed(chunks)
    /\ Computed => WellFormed(chunks) /\ WellFormed(result)

\* a call has returned a merged list of several chunks, shorter than the list
\* its last splice had made
C15_Witness ==
    /\ Computed
    /\ lastSplice # NoSplice
    /\ Len(result) >= 2
    /\ Len(result) < Len(lastSplice.before) - 1 + Len(lastSplice.sub)

\* the call ended in an exception
Raised(out) == out \in {Unbound, IndexError}

\* C16 (under SpecFn): seek_split and detect_silence_and_audible called with a
\* level past the ladder (level >= N) return a value; they do not end in a
\* raised error.
C16_PastLadderReturns ==
    ((Returned("seek_split") \/ Returned("detect_silence_and_audible(audio)"))
        /\ fnArgs.level >= N)
    => ~Raised(fnOut)

\* 0-based positions of the chunks of cs that the scan would splice
Splittable(seg, cs, target) ==
    {p \in 0..(Len(cs) - 1) :
        Qualifies(cs[p + 1], target) /\ Len(Subsplit(seg, cs, p)) > 1}

\* the list the loop of lines 99-119 ends with when it starts from cs
RECURSIVE Refined(_, _, _)
Refined(seg, cs, target) ==
    LET ps == Splittable(seg, cs, target)
    IN  IF ps = {} THEN cs
        ELSE LET p == LowestOf(ps)
             IN  Refined(seg,
                         Splice(cs, p, Inserted(cs[p + 1], Subsplit(seg, cs, p))),
                         target)

\* what get_fragments computes with no lru_cache and no cache directory
FreshFragments(seg, min_size, target) ==
    gen_join_almost_silent(Refined(seg, InitialChunks(seg), target), min_size)

\* no other buffer of the model has the fingerprint of seg
Alone(seg) == \A b \in Buffers : get_audio_id(b) = get_audio_id(seg) => b = seg

\* C17: whatever calls on the same buffer came before, with whatever
\* thresholds, the list a call returns is the list a computation without any
\* cache gives for the buffer and the two thresholds of the call (for a buffer
\* that shares its file with no other and whose file get_fragments alone has
\* written).
C17_CachedEqualsFresh ==
    (pc = "idle" /\ source # "none" /\ Alone(audio) /\ Unstored(audio)) =>
        result = FreshFragments(audio, min_audible_size, target_audible_size)

\* C18: during a call of get_fragments every chunk of the list has a level of
\* the ladder, and seek_split is entered only with a starting level of the
\* ladder: it raises nothing and returns chunks of a level from the starting
\* level to N-1, the levels it asked the oracle about.
C18_LevelsInsideLadder ==
    /\ \A i \in 1..Len(chunks) : chunks[i].level \in 0..(N - 1)
    /\ (pc = "scan" /\ pos < Len(chunks)
            /\ Qualifies(chunks[pos + 1], target_audible_size)) =>
          LET s        == chunks[pos + 1].level + 1
              subsplit == Subsplit(audio, chunks, pos)
          IN  /\ s \in 0..(N - 1)
              /\ ~Raised(subsplit)
              /\ \A k \in 1..Len(subsplit) : subsplit[k].level \in s..(N - 1)

\* the scan stands at a chunk of the last level that is longer than
\* target_audible_size: only the test for headroom keeps it from seek_split
C18_Witness ==
    /\ pc = "scan" /\ pos < Len(chunks)
    /\ chunks[pos + 1].level = N - 1
    /\ chunks[pos + 1].end - chunks[pos + 1].start > target_audible_size
    /\ \E i \in 1..Len(chunks) : chunks[i].level = 0

\* C19: when the chunk at pos qualifies and seek_split gives no more than one
\* sub-chunk, the list stays as it is and the scan goes on with the next chunk;
\* so when the loop is left, no chunk of the list, before or after such a
\* chunk, is one that qualifies and that seek_split splits.
C19_UnsplittableIsSkipped ==
    [][/\ (ScanNext /\ Qualifies(chunks[pos + 1], target_audible_size)) =>
              /\ Len(Subsplit(audio, chunks, pos)) <= 1
              /\ chunks' = chunks
              /\ pos' = pos + 1
              /\ pc' = "scan"
       /\ Finish => Splittable(audio, chunks, target_audible_size) = {}]_vars

\* a call has returned whose last splice was of a chunk that comes after a
\* chunk that qualifies and does not split
C19_Witness ==
    /\ Computed
    /\ lastSplice # NoSplice
    /\ \E i \in 1..lastSplice.pos :
          /\ Qualifies(lastSplice.before[i], target_audible_size)
          /\ Len(Subsplit(audio, lastSplice.before, i - 1)) <= 1

====
